---- MODULE Spec2Model ----
(***************************************************************************)
(* Safe remote append of one CSV record over FTP: FTPClient::uploadData   *)
(* and the operations it is composed of (src/src/FTPClient.cpp), run       *)
(* against an FTP server that answers truthfully but may reject a command, *)
(* lose a reply, store a truncated upload or lose the control connection.  *)
(***************************************************************************)
EXTENDS Integers, Sequences, FiniteSets, TLC

\* ---------------------------------------------------------------- bounds
MaxPrior == 2          \* longest prior canonical content, in lines
MaxTokens == 8         \* most numbers in the tuple of a PASV reply
MaxCalls == 3          \* most calls of client operations in a client run
MaxWakes == 2          \* most timer wake-ups after the first wake cycle
MaxCommands == 3       \* most commands sent in a control stream run

\* ------------------------------------------------------ program constants
MaxUploadAttempts == 2     \* uploadData: for (attempt = 1; attempt <= 2; ..)
maxAttempts == 5           \* safeDeleteFile: delete attempts
MaxRenameAttempts == 3     \* safeDeleteFile: backup rename attempts
MaxBackupCounter == 10     \* safeDeleteFile: backupCounter > 10 gives up
chunkSize == 512           \* createFile: size_t chunkSize = 512
READINGS_PER_CYCLE == 5    \* main.cpp: const int READINGS_PER_CYCLE = 5
maxNtpAttempts == 3        \* syncTime: const int maxNtpAttempts = 3

\* ------------------------------------------------------- remote names
filename == "canon"                    \* the canonical object  <stem>.csv
tempFilename == "temp"                 \* <stem>_new.csv
BakNames == <<"bak", "bak1", "bak2", "bak3", "bak4",
              "bak5", "bak6", "bak7", "bak8", "bak9", "bak10">>
\* a plausible slip: the counter is left out of the backup name
BackupName_same(i) == BakNames[1]
\* baseName + ".bak" for index 0, baseName + ".bak" + String(i) for i >= 1
BackupName(i) == BakNames[i + 1]
Names == {filename, tempFilename} \cup {BakNames[i] : i \in 1..Len(BakNames)}

\* ------------------------------------------------------- file contents
\* A content is a sequence of lines; Absent marks a name with no object.
Absent == <<"-">>
header == "H"
csvData == <<"r2">>                    \* the record of this invocation
OldBackup == <<"H", "r0">>             \* content of pre-existing backups
PriorLines == {"H", "r1"}

\* byte length of one line: the header line is longer than a record line
LineBytes(l) == IF l = header THEN 2 ELSE 1

RECURSIVE length(_)
length(s) == IF s = <<>> THEN 0 ELSE LineBytes(Head(s)) + length(Tail(s))

Prefix(s, k) == SubSeq(s, 1, k)

\* prior canonical contents: absent, empty, or lines with the header (if
\* any) first
PriorContents ==
    {Absent} \cup
    {s \in UNION {[1..n -> PriorLines] : n \in 0..MaxPrior} :
        \A i \in 2..Len(s) : s[i] # header}

InitialBackups == {{}, {0}, 0..9}

\* ------------------------------------------------------- replies
\* The three-digit code a reply starts with.
Code(r) == CASE r = "550 not allowed" -> "550"
             [] r = "227 malformed"   -> "227"
             [] OTHER                 -> r
startsWith(r, c) == Code(r) = c

VARIABLES
    files,          \* server: name -> content or Absent
    connected,      \* controlClient.connected()
    pc,             \* position inside uploadData
    attempt,        \* uploadData loop counter
    result,         \* value returned by uploadData (valid when pc = "done")
    originalExists, \* local of uploadData
    fullContent,    \* local of uploadData
    createHeader,   \* parameter of uploadData
    delAttempt,     \* safeDeleteFile: attempt
    backupIdx,      \* safeDeleteFile: index of backupName
    backupCounter,  \* safeDeleteFile: backupCounter
    renameAttempt,  \* safeDeleteFile: renameAttempt
    att,            \* what the current outer attempt has done so far
    lastAbort,      \* why the latest concluded outer attempt aborted
    prior,          \* canonical content before the invocation
    preCanon,       \* canonical content when the current attempt started
    earlyFault,     \* a step before staging has failed in this invocation
    tuple,          \* unit run: what the server put in its PASV reply
    response,       \* unit run: parsePassiveMode argument, a string
    dataPort,       \* unit run: parsePassiveMode argument, set by reference
    parsed,         \* unit run: parsePassiveMode called, and its result
    probe,          \* unit run: the replies a server has for the probes
    probed,         \* unit run: fileExists called, its result, probes sent
    dataOpen,       \* client run: dataClient.connected()
    call,           \* client run: the operation called and its position
    xfer,           \* client run: locals of the transfer in progress
    log,            \* client run: what the calls so far have done
    writers,        \* two-writer run: the locals of each uploadData
    cycle,          \* wake cycle: position and locals of setup()
    stream,         \* control stream run: lines and replies read
    compose         \* composition run: the strings of one attempt

uploadVars == <<files, connected, pc, attempt, result, originalExists,
                fullContent, createHeader, delAttempt, backupIdx,
                backupCounter, renameAttempt, att, lastAbort, prior,
                preCanon, earlyFault>>

clientVars == <<dataOpen, call, xfer, log>>

extraVars == <<cycle, stream, compose>>

unitVars == <<tuple, response, dataPort, parsed, probe, probed, clientVars,
              writers, extraVars>>

vars == <<uploadVars, unitVars>>

sdVars == <<delAttempt, backupIdx, backupCounter, renameAttempt>>

FreshAttempt ==
    [session |-> FALSE, staged |-> FALSE, verified |-> FALSE,
     mismatch |-> FALSE, removed |-> FALSE, guard |-> FALSE,
     renamed |-> FALSE, fprobe |-> FALSE, flen |-> FALSE,
     deleCanon |-> FALSE, bakRename |-> FALSE, bakRenamed |-> FALSE,
     deleTemp |-> FALSE, commit |-> FALSE, delFails |-> 0, sdFail |-> "none",
     deles |-> 0, bakProbes |-> 0, bakSeen |-> {}, bakRenames |-> 0,
     bakTarget |-> "none",
     greeted |-> FALSE, loggedIn |-> FALSE, fileCmd |-> FALSE,
     dlEmpty |-> FALSE, storIssued |-> FALSE, guardFound |-> FALSE,
     deleOk |-> FALSE, gone |-> FALSE]

\* no unit run of parsePassiveMode or fileExists
NoTuple == [n |-> 0, p1 |-> 0, p2 |-> 0, open |-> FALSE, close |-> FALSE]
NotParsed == [done |-> FALSE, ok |-> FALSE]
NoProbe == [present |-> FALSE, mlst |-> "none", size |-> "none",
            mdtm |-> "none"]
NotProbed == [done |-> FALSE, value |-> FALSE, sent |-> <<>>]

\* no client run: no operation called, no transfer under way
NoCall == [fn |-> "none", at |-> "ret"]
XferIdle == [len |-> 0, totalSent |-> 0, written |-> 0, read |-> 0,
             maxChunk |-> 0, short |-> FALSE, cmdReply |-> "unsent",
             final |-> "unread", ret |-> FALSE]
NoLog == [calls |-> 0, prev |-> "none", quitSent |-> FALSE,
          changed |-> FALSE, openedWhileOpen |-> FALSE]
NoClient ==
    /\ dataOpen = FALSE /\ call = NoCall /\ xfer = XferIdle /\ log = NoLog

\* no two-writer run
NoWriters == <<>>

\* no wake cycle
NoCycle == [at |-> "off", i |-> 0, sampleCount |-> 0, ntpAttempts |-> 0,
            uploads |-> 0, sensorOk |-> FALSE, wifiOk |-> FALSE,
            ntpOk |-> FALSE, uploadSuccess |-> FALSE, wakes |-> 0]
\* no control stream run
NoStream == [at |-> "off", cmd |-> 0, reads |-> 0, wire |-> <<>>,
             inbox |-> <<>>, got |-> <<>>, usedFor |-> 0, calls |-> 0]
\* no composition run
NoCompose == [at |-> "off", present |-> FALSE, canon |-> <<>>,
              record |-> <<>>, withHeader |-> FALSE, exists |-> FALSE,
              full |-> <<>>, temp |-> <<>>, verifyContent |-> <<>>,
              readOk |-> FALSE, verified |-> FALSE, finalContent |-> <<>>,
              finalOk |-> FALSE, success |-> FALSE]
NoExtra == cycle = NoCycle /\ stream = NoStream /\ compose = NoCompose

Init ==
    /\ tuple = NoTuple /\ response = <<>> /\ dataPort = 0
    /\ parsed = NotParsed /\ probe = NoProbe /\ probed = NotProbed
    /\ NoClient /\ writers = NoWriters /\ NoExtra
    /\ \E p \in PriorContents, b \in InitialBackups :
          /\ prior = p
          /\ files = [n \in Names |->
                        IF n = filename THEN p
                        ELSE IF \E i \in b : n = BackupName(i) THEN OldBackup
                        ELSE Absent]
    /\ createHeader \in BOOLEAN
    /\ connected = FALSE
    /\ pc = "connect"
    /\ attempt = 1
    /\ result = FALSE
    /\ originalExists = FALSE
    /\ fullContent = <<>>
    /\ delAttempt = 1
    /\ backupIdx = 0
    /\ backupCounter = 1
    /\ renameAttempt = 1
    /\ att = FreshAttempt
    /\ lastAbort = "none"
    /\ preCanon = prior
    /\ earlyFault = FALSE

\* a plausible slip of the retry bound: one attempt too many
Abort_offByOne(reason, conn) ==
    /\ lastAbort' = reason
    /\ connected' = conn
    /\ IF attempt <= MaxUploadAttempts
         THEN /\ attempt' = attempt + 1
              /\ pc' = "connect"
              /\ result' = result
         ELSE /\ attempt' = attempt
              /\ pc' = "done"
              /\ result' = FALSE

\* ------------------------------------------------- end of an outer attempt
\* "if (attempt < 2) { delay; continue; } return false;" with the control
\* connection left in state conn (FALSE after disconnect()).
Abort(reason, conn) ==
    /\ lastAbort' = reason
    /\ connected' = conn
    /\ IF attempt < MaxUploadAttempts
         THEN /\ attempt' = attempt + 1
              /\ pc' = "connect"
              /\ result' = result
         ELSE /\ attempt' = attempt
              /\ pc' = "done"
              /\ result' = FALSE

\* ------------------------------------------------------- control session
\* connect(): TCP connect, then a greeting that must start with 220.
connectOk(tcp, greeting) == tcp /\ startsWith(greeting, "220")

Connect ==
    /\ pc = "connect"
    /\ \E tcp \in BOOLEAN, greeting \in {"220", "421", "none"} :
          /\ att' = [FreshAttempt EXCEPT
                        !.greeted = tcp /\ startsWith(greeting, "220")]
          /\ preCanon' = files[filename]
          /\ originalExists' = FALSE
          /\ fullContent' = <<>>
          /\ delAttempt' = 1 /\ backupIdx' = 0
          /\ backupCounter' = 1 /\ renameAttempt' = 1
          /\ IF connectOk(tcp, greeting)
               THEN /\ connected' = TRUE
                    /\ pc' = "login"
                    /\ UNCHANGED <<attempt, result, lastAbort>>
               ELSE Abort("connect", tcp)   \* no disconnect() on this path
          /\ earlyFault' = (earlyFault \/ ~connectOk(tcp, greeting))
    /\ UNCHANGED <<files, createHeader, prior>>
    /\ UNCHANGED unitVars

\* a plausible slip: the reply to PASS is not looked at
loginOk_userOnly(user, pass) ==
    startsWith(user, "331") \/ startsWith(user, "230")

\* login(): USER accepts 331 or 230, PASS accepts 230.
loginOk(user, pass) ==
    /\ startsWith(user, "331") \/ startsWith(user, "230")
    /\ startsWith(pass, "230")

Replies(set) == IF connected THEN set ELSE {"none"}

Login ==
    /\ pc = "login"
    /\ \E user \in Replies({"331", "230", "530", "none"}),
          pass \in Replies({"230", "530", "none"}) :
          /\ att' = [att EXCEPT !.loggedIn =
                        /\ startsWith(user, "331") \/ startsWith(user, "230")
                        /\ startsWith(pass, "230")]
          /\ IF loginOk(user, pass)
               THEN /\ pc' = "cwd"
                    /\ UNCHANGED <<connected, attempt, result, lastAbort,
                                   earlyFault>>
               ELSE Abort("login", FALSE) /\ earlyFault' = TRUE
    /\ UNCHANGED <<files, originalExists, fullContent, createHeader, sdVars,
                   prior, preCanon>>
    /\ UNCHANGED unitVars

\* changeDirectory(): CWD accepts 250.
changeDirectoryOk(cwd) == startsWith(cwd, "250")

ChangeDirectory ==
    /\ pc = "cwd"
    /\ \E cwd \in Replies({"250", "550", "none"}) :
          /\ att' = [att EXCEPT !.session = startsWith(cwd, "250")]
          /\ IF changeDirectoryOk(cwd)
               THEN /\ pc' = "probe"
                    /\ UNCHANGED <<connected, attempt, result, lastAbort,
                                   earlyFault>>
               ELSE /\ Abort("cwd", FALSE)
                    /\ earlyFault' = TRUE
    /\ UNCHANGED <<files, originalExists, fullContent, createHeader, sdVars,
                   prior, preCanon>>
    /\ UNCHANGED unitVars

\* ------------------------------------------------------- existence probe
\* Replies the server can give to the three probes of a name; a "found"
\* reply is only given for an object that is there.
MLSTReplies(present) ==
    Replies(IF present THEN {"250", "500", "none"}
                       ELSE {"550", "500", "none"})
SIZEReplies(present) ==
    Replies(IF present THEN {"213", "550 not allowed", "500", "none"}
                       ELSE {"550", "550 not allowed", "500", "none"})
MDTMReplies(present) ==
    Replies(IF present THEN {"213", "500", "none"}
                       ELSE {"550", "500", "none"})

\* fileExists(): MLST, then SIZE, then MDTM only after "550 ... not allowed".
fileExists(mlst, size, mdtm) ==
    \/ startsWith(mlst, "250")
    \/ startsWith(size, "213")
    \/ /\ startsWith(size, "550") /\ size = "550 not allowed"
       /\ startsWith(mdtm, "213")

\* the outcomes fileExists can have for a name that is present or not
FileExistsResults(present) ==
    {fileExists(m, s, d) : m \in MLSTReplies(present),
                           s \in SIZEReplies(present),
                           d \in MDTMReplies(present)}

Present(name) == files[name] # Absent

\* a plausible slip: the header is written whatever the flag says
NewContent_always == <<header>> \o csvData

\* content staged for a new object
NewContent == IF createHeader THEN <<header>> \o csvData ELSE csvData

ProbeOriginal ==
    /\ pc = "probe"
    /\ \E e \in FileExistsResults(Present(filename)) :
          /\ originalExists' = e
          /\ earlyFault' = (earlyFault \/ e # Present(filename))
          /\ IF e THEN /\ pc' = "download"
                       /\ fullContent' = fullContent
                  ELSE /\ pc' = "stage"
                       /\ fullContent' = NewContent
    /\ att' = [att EXCEPT !.fileCmd = TRUE]
    /\ UNCHANGED <<files, connected, attempt, result, createHeader, sdVars,
                   lastAbort, prior, preCanon>>
    /\ UNCHANGED unitVars

\* ------------------------------------------------------- data transfers
PasvReplies == Replies({"227", "227 malformed", "500", "none"})

\* parsePassiveMode() on the reply to PASV: the tuple must be well formed
pasvWellFormed(pasv) == pasv = "227"

\* PASV accepted, its address parsed and the data connection opened
dataChannel(pasv, dataOk) ==
    startsWith(pasv, "227") /\ pasvWellFormed(pasv) /\ dataOk

\* downloadFile(name): the content read, "" on any failure.  RETR is only
\* accepted for an object that is there, and a 226/250 completion is only
\* sent after the whole object was sent.
downloadFile(name, pasv, dataOk, retr, final) ==
    IF /\ dataChannel(pasv, dataOk)
       /\ startsWith(retr, "150") \/ startsWith(retr, "125")
       /\ startsWith(final, "226") \/ startsWith(final, "250")
      THEN files[name]
      ELSE <<>>

RetrReplies(name) ==
    Replies(IF Present(name) THEN {"150", "550", "none"}
                             ELSE {"550", "none"})

DownloadResults(name) ==
    {downloadFile(name, pasv, dataOk, retr, final) :
        pasv \in PasvReplies, dataOk \in BOOLEAN, retr \in RetrReplies(name),
        final \in Replies({"226", "426", "none"})}

\* a plausible slip of STEP 2: the record is appended twice
Combined_twice(existingContent) == existingContent \o csvData \o csvData

\* STEP 2: fullContent = existingContent + csvData
Combined(existingContent) == existingContent \o csvData

\* a plausible slip: the downloaded length is not looked at
downloadFailed_never(existingContent) == FALSE

\* STEP 1: existingContent.length() == 0
downloadFailed(existingContent) == length(existingContent) = 0

\* STEP 1 and 2 of uploadData: download the existing content and append
\* the record; heap1 and heap2 are the two ESP.getFreeHeap() checks.
DownloadOriginal ==
    /\ pc = "download"
    /\ \E heap1 \in BOOLEAN, heap2 \in BOOLEAN,
          existingContent \in DownloadResults(filename) :
          /\ att' = [att EXCEPT !.dlEmpty =
                                    heap1 /\ length(existingContent) = 0]
          /\ IF ~heap1 \/ downloadFailed(existingContent) \/ ~heap2
               THEN /\ Abort(IF ~heap1 THEN "memory"
                             ELSE IF downloadFailed(existingContent)
                               THEN "download"
                             ELSE "memory", FALSE)
                    /\ fullContent' = fullContent
                    /\ earlyFault' = TRUE
               ELSE /\ fullContent' = Combined(existingContent)
                    /\ pc' = "stage"
                    /\ UNCHANGED <<connected, attempt, result, lastAbort,
                                   earlyFault>>
    /\ UNCHANGED <<files, originalExists, createHeader, sdVars, prior,
                   preCanon>>
    /\ UNCHANGED unitVars

\* createFile(): return value from the replies seen; sent is the number of
\* lines the data connection accepted, n the number of lines to send and
\* exists the result of the fileExists() fallback used when no final reply
\* arrives.
createFile(pasv, dataOk, stor, sent, n, final, exists) ==
    /\ dataChannel(pasv, dataOk)
    /\ startsWith(stor, "150") \/ startsWith(stor, "125")
    /\ sent = n
    /\ \/ startsWith(final, "226") \/ startsWith(final, "250")
       \/ final = "none" /\ exists

\* What the server may have stored for a STOR, as a number of lines of the
\* content (-1: the object was not touched).  A 226/250 completion is only
\* sent when everything was stored; a STOR whose reply is lost may have
\* created an empty object.
Stored(pasv, dataOk, stor, sent, n, final) ==
    IF ~dataChannel(pasv, dataOk) \/ ~connected THEN {-1}
    ELSE IF stor = "none" THEN {-1, 0}
    ELSE IF ~(startsWith(stor, "150") \/ startsWith(stor, "125")) THEN {-1}
    ELSE IF sent = n /\ (startsWith(final, "226") \/ startsWith(final, "250"))
      THEN {n}
    ELSE 0..sent

\* a plausible slip: the content is stored at the canonical name
stageTarget_canonical == filename

\* the name createFile() is called with in STEP 3
stageTarget == tempFilename

\* STEP 3: createFile(tempFilename, fullContent)
Stage ==
    /\ pc = "stage"
    /\ LET n == Len(fullContent) IN
       \E pasv \in PasvReplies, dataOk \in BOOLEAN,
          stor \in Replies({"150", "550", "none"}),
          sent \in 0..n, final \in Replies({"226", "452", "none"}) :
       \E k \in Stored(pasv, dataOk, stor, sent, n, final) :
       \E exists \in FileExistsResults(k >= 0 \/ Present(stageTarget)) :
          /\ files' = IF k >= 0
                        THEN [files EXCEPT ![stageTarget] =
                                                    Prefix(fullContent, k)]
                        ELSE files
          /\ IF createFile(pasv, dataOk, stor, sent, n, final, exists)
               THEN /\ pc' = "verify"
                    /\ att' = [att EXCEPT !.staged = TRUE,
                                          !.storIssued = TRUE]
                    /\ UNCHANGED <<connected, attempt, result, lastAbort>>
               ELSE /\ Abort("stage", FALSE)
                    /\ att' = [att EXCEPT !.storIssued =
                                              dataChannel(pasv, dataOk)]
    /\ UNCHANGED <<originalExists, fullContent, createHeader, sdVars, prior,
                   preCanon, earlyFault>>
    /\ UNCHANGED unitVars

\* deleteFile(): DELE accepts 250.
deleteFile(dele) == startsWith(dele, "250")

\* Replies to DELE of a name in file system f, each with whether the object
\* was removed.  An object that is not there gives no 250; a 250 may come
\* before the object is really gone, and a lost reply tells nothing.
DeleOutcomes(f, name, conn) ==
    IF ~conn THEN {<<"none", FALSE>>}
    ELSE IF f[name] = Absent THEN {<<"550", FALSE>>, <<"none", FALSE>>}
    ELSE {<<"250", TRUE>>, <<"250", FALSE>>, <<"550", FALSE>>,
          <<"none", TRUE>>, <<"none", FALSE>>}

Removed(f, name, executed) ==
    IF executed THEN [f EXCEPT ![name] = Absent] ELSE f

\* plausible slips of the read-back comparison
stageVerified_atMost(verifyContent, full) ==
    length(verifyContent) <= length(full)
stageVerified_always(verifyContent, full) == TRUE

\* the read-back test of STEP 3.5: verifyContent.length() against
\* fullContent.length()
stageVerified(verifyContent, full) == length(verifyContent) = length(full)

\* a plausible slip: the mismatch branch deletes the canonical object
verifyDiscards_canonical == filename

\* the name deleteFile() is called with when the read-back does not match
verifyDiscards == tempFilename

\* STEP 3.5: read the temporary object back and compare lengths; on a
\* mismatch delete it and abort.
VerifyStage ==
    /\ pc = "verify"
    /\ IF ~connected
         THEN /\ Abort("lost", FALSE)
              /\ UNCHANGED <<files, att>>
         ELSE \E verifyContent \in DownloadResults(tempFilename) :
              LET same == length(verifyContent) = length(fullContent)
              IN IF ~stageVerified(verifyContent, fullContent)
                THEN \E d \in DeleOutcomes(files, verifyDiscards, connected) :
                        /\ files' = Removed(files, verifyDiscards, d[2])
                        /\ att' = [att EXCEPT !.mismatch = ~same,
                                              !.deleTemp = TRUE]
                        /\ Abort("verify", FALSE)
                ELSE /\ att' = [att EXCEPT !.verified = same,
                                           !.mismatch = ~same]
                     /\ pc' = IF originalExists THEN "sd_delete" ELSE "guard"
                     /\ UNCHANGED <<files, connected, attempt, result,
                                    lastAbort>>
    /\ UNCHANGED <<originalExists, fullContent, createHeader, sdVars, prior,
                   preCanon, earlyFault>>
    /\ UNCHANGED unitVars

\* ------------------------------------------------------- rename
\* renameFile(): RNFR must give 350, then RNTO must give 250.
renameFile(rnfr, rnto) == startsWith(rnfr, "350") /\ startsWith(rnto, "250")

\* Replies to RNFR and RNTO for a source name in file system f, each with
\* whether the rename took place.  RNTO is only sent after a 350; a 250 is
\* only given for a rename that took place.
RenameOutcomes(f, old, conn) ==
    IF ~conn THEN {<<"none", "none", FALSE>>}
    ELSE IF f[old] = Absent
      THEN {<<"550", "none", FALSE>>, <<"none", "none", FALSE>>}
    ELSE {<<"350", "250", TRUE>>, <<"350", "553", FALSE>>,
          <<"350", "none", TRUE>>, <<"350", "none", FALSE>>,
          <<"550", "none", FALSE>>, <<"none", "none", FALSE>>}

Renamed(f, old, new, executed) ==
    IF executed THEN [f EXCEPT ![new] = f[old], ![old] = Absent] ELSE f

\* ------------------------------------------------------- safeDeleteFile
\* safeDeleteFile() returned false: uploadData deletes the temporary
\* object, disconnects and ends the attempt.  f and a are the file system
\* and the attempt record reached so far.
SafeDeleteFailed(reason, f, a) ==
    \E d \in DeleOutcomes(f, tempFilename, connected) :
       /\ files' = Removed(f, tempFilename, d[2])
       /\ att' = [a EXCEPT !.deleTemp = TRUE, !.sdFail = reason]
       /\ Abort(reason, FALSE)

\* a plausible slip of the delete loop bound
Unconfirmed_early(a) ==
    /\ att' = [a EXCEPT !.delFails = @ + 1, !.deleOk = FALSE]
    /\ IF delAttempt < maxAttempts - 1
         THEN delAttempt' = delAttempt + 1 /\ pc' = "sd_delete"
         ELSE delAttempt' = delAttempt /\ pc' = "sd_bak"

\* a plausible slip of the delete loop bound: one attempt too many
Unconfirmed_oneMore(a) ==
    /\ att' = [a EXCEPT !.delFails = @ + 1, !.deleOk = FALSE]
    /\ IF delAttempt <= maxAttempts
         THEN delAttempt' = delAttempt + 1 /\ pc' = "sd_delete"
         ELSE delAttempt' = delAttempt /\ pc' = "sd_bak"

\* one more unconfirmed delete attempt: next attempt, or the backup path
\* once maxAttempts attempts are used up
Unconfirmed(a) ==
    /\ att' = [a EXCEPT !.delFails = @ + 1, !.deleOk = FALSE]
    /\ IF delAttempt < maxAttempts
         THEN delAttempt' = delAttempt + 1 /\ pc' = "sd_delete"
         ELSE delAttempt' = delAttempt /\ pc' = "sd_bak"

\* STEP 4, delete loop body: isConnected(), then deleteFile(filename).
\* Before the first attempt uploadData itself checks the connection.
SdDelete ==
    /\ pc = "sd_delete"
    /\ IF ~connected
         THEN /\ IF delAttempt = 1
                   THEN Abort("lost", FALSE) /\ UNCHANGED <<files, att>>
                   ELSE SafeDeleteFailed("sd_lost", files, att)
              /\ UNCHANGED delAttempt
         ELSE \E d \in DeleOutcomes(files, filename, connected) :
              /\ files' = Removed(files, filename, d[2])
              /\ IF deleteFile(d[1])
                   THEN /\ pc' = "sd_check"
                        /\ att' = [att EXCEPT !.deleCanon = TRUE,
                                              !.deles = @ + 1,
                                              !.deleOk =
                                                  startsWith(d[1], "250")]
                        /\ UNCHANGED delAttempt
                   ELSE Unconfirmed([att EXCEPT !.deleCanon = TRUE,
                                                !.deles = @ + 1])
              /\ UNCHANGED <<connected, attempt, result, lastAbort>>
    /\ UNCHANGED <<originalExists, fullContent, createHeader, backupIdx,
                   backupCounter, renameAttempt, prior, preCanon, earlyFault>>
    /\ UNCHANGED unitVars

\* a plausible slip: the 250 of DELE is trusted without looking
deleteVerified_trustDele(e) == TRUE

\* if (!fileExists(filename)): the file is verified gone
deleteVerified(e) == ~e

\* delete loop body after a 250: the delete only counts when fileExists()
\* no longer finds the object.
SdCheck ==
    /\ pc = "sd_check"
    /\ \E e \in FileExistsResults(Present(filename)) :
          IF deleteVerified(e)
            THEN /\ pc' = "guard"
                 /\ att' = [att EXCEPT !.removed = TRUE, !.gone = ~e]
                 /\ UNCHANGED delAttempt
            ELSE Unconfirmed(att)
    /\ UNCHANGED <<files, connected, attempt, result, originalExists,
                   fullContent, createHeader, backupIdx, backupCounter,
                   renameAttempt, lastAbort, prior, preCanon, earlyFault>>
    /\ UNCHANGED unitVars

\* backup name search: while (fileExists(backupName)) take the next name,
\* giving up once backupCounter exceeds MaxBackupCounter.
SdBakProbe ==
    /\ pc = "sd_bak"
    /\ \E e \in FileExistsResults(Present(BackupName(backupIdx))) :
          LET a == [att EXCEPT !.bakProbes = @ + 1,
                               !.bakSeen = IF e
                                   THEN @ \cup {BackupName(backupIdx)}
                                   ELSE @]
          IN IF ~e
            THEN /\ pc' = "sd_rename"
                 /\ att' = a
                 /\ UNCHANGED <<files, backupIdx, backupCounter,
                                connected, attempt, result, lastAbort>>
            ELSE /\ backupIdx' = backupCounter
                 /\ backupCounter' = backupCounter + 1
                 /\ IF backupCounter + 1 > MaxBackupCounter
                      THEN SafeDeleteFailed("sd_toomany", files, a)
                      ELSE /\ att' = a
                           /\ UNCHANGED <<files, pc, connected, attempt,
                                          result, lastAbort>>
    /\ UNCHANGED <<originalExists, fullContent, createHeader, delAttempt,
                   renameAttempt, prior, preCanon, earlyFault>>
    /\ UNCHANGED unitVars

\* backup rename loop body: isConnected(), then
\* renameFile(filename, backupName), at most MaxRenameAttempts times.
SdRename ==
    /\ pc = "sd_rename"
    /\ IF ~connected
         THEN /\ SafeDeleteFailed("sd_lost", files, att)
              /\ UNCHANGED renameAttempt
         ELSE \E r \in RenameOutcomes(files, filename, connected) :
              LET f == Renamed(files, filename, BackupName(backupIdx), r[3])
                  a == [att EXCEPT !.bakRename = TRUE, !.bakRenames = @ + 1,
                                   !.bakTarget = BackupName(backupIdx)]
              IN IF renameFile(r[1], r[2])
                   THEN /\ files' = f
                        /\ att' = [a EXCEPT !.bakRenamed = TRUE,
                                            !.removed = TRUE]
                        /\ pc' = "guard"
                        /\ UNCHANGED <<renameAttempt, connected, attempt,
                                       result, lastAbort>>
                 ELSE IF renameAttempt < MaxRenameAttempts
                   THEN /\ files' = f
                        /\ att' = a
                        /\ renameAttempt' = renameAttempt + 1
                        /\ UNCHANGED <<pc, connected, attempt, result,
                                       lastAbort>>
                 ELSE /\ SafeDeleteFailed("sd_exhausted", f, a)
                      /\ UNCHANGED renameAttempt
    /\ UNCHANGED <<originalExists, fullContent, createHeader, delAttempt,
                   backupIdx, backupCounter, prior, preCanon, earlyFault>>
    /\ UNCHANGED unitVars

\* ------------------------------------------------------- commit
\* a plausible slip: the result of the double-check is not used
guardBlocks_never(e) == FALSE

\* if (fileExists(filename)): the canonical name is taken, abort
guardBlocks(e) == e

\* STEP 5, first half: isConnected(), then the canonical name must not be
\* found by fileExists().
Guard ==
    /\ pc = "guard"
    /\ IF ~connected
         THEN Abort("lost", FALSE) /\ att' = att
         ELSE \E e \in FileExistsResults(Present(filename)) :
              IF guardBlocks(e)
                THEN /\ Abort("guard", FALSE)
                     /\ att' = [att EXCEPT !.guardFound = e]
                ELSE /\ pc' = "commit"
                     /\ att' = [att EXCEPT !.guard = ~e, !.guardFound = e]
                     /\ UNCHANGED <<connected, attempt, result, lastAbort>>
    /\ UNCHANGED <<files, originalExists, fullContent, createHeader, sdVars,
                   prior, preCanon, earlyFault>>
    /\ UNCHANGED unitVars

\* STEP 5, second half: renameFile(tempFilename, filename)
Commit ==
    /\ pc = "commit"
    /\ \E r \in RenameOutcomes(files, tempFilename, connected) :
          /\ files' = Renamed(files, tempFilename, filename, r[3])
          /\ IF renameFile(r[1], r[2])
               THEN /\ pc' = "finalProbe"
                    /\ att' = [att EXCEPT !.commit = TRUE, !.renamed = TRUE]
                    /\ UNCHANGED <<connected, attempt, result, lastAbort>>
               ELSE /\ att' = [att EXCEPT !.commit = TRUE]
                    /\ Abort("commit", FALSE)
    /\ UNCHANGED <<originalExists, fullContent, createHeader, sdVars, prior,
                   preCanon, earlyFault>>
    /\ UNCHANGED unitVars

\* a plausible slip: the verdict of the final verification is not used
Conclude_ignoreVerdict(success) ==
    /\ pc' = "done"
    /\ result' = TRUE
    /\ connected' = FALSE
    /\ UNCHANGED <<attempt, lastAbort>>

\* a plausible slip: a failed final verification is not retried
Conclude_noRetry(success) ==
    /\ pc' = "done"
    /\ result' = success
    /\ connected' = FALSE
    /\ lastAbort' = IF success THEN lastAbort ELSE "final"
    /\ UNCHANGED attempt

\* end of the loop body: disconnect(), then return true on success, else
\* go round again or fall out of the loop and return false
Conclude(success) ==
    IF success
      THEN /\ pc' = "done"
           /\ result' = TRUE
           /\ connected' = FALSE
           /\ UNCHANGED <<attempt, lastAbort>>
      ELSE Abort("final", FALSE)

\* STEP 6, first half: fileExists(filename)
FinalProbe ==
    /\ pc = "finalProbe"
    /\ \E e \in FileExistsResults(Present(filename)) :
          IF e THEN /\ pc' = "finalDownload"
                    /\ att' = [att EXCEPT !.fprobe = TRUE]
                    /\ UNCHANGED <<connected, attempt, result, lastAbort>>
               ELSE Conclude(FALSE) /\ att' = att
    /\ UNCHANGED <<files, originalExists, fullContent, createHeader, sdVars,
                   prior, preCanon, earlyFault>>
    /\ UNCHANGED unitVars

\* STEP 6, second half: download the canonical object and compare lengths
FinalDownload ==
    /\ pc = "finalDownload"
    /\ \E finalContent \in DownloadResults(filename) :
          LET success == length(finalContent) = length(fullContent)
          IN /\ Conclude(success)
             /\ att' = [att EXCEPT !.flen = success]
    /\ UNCHANGED <<files, originalExists, fullContent, createHeader, sdVars,
                   prior, preCanon, earlyFault>>
    /\ UNCHANGED unitVars

\* ------------------------------------------------------- environment
\* The control connection is lost.
Drop ==
    /\ connected
    /\ pc \notin {"connect", "done"}
    /\ connected' = FALSE
    /\ earlyFault' = (earlyFault \/ pc \in {"login", "cwd", "probe", "download"})
    /\ UNCHANGED <<files, pc, attempt, result, originalExists, fullContent,
                   createHeader, sdVars, att, lastAbort, prior, preCanon>>
    /\ UNCHANGED unitVars

Next ==
    \/ Connect
    \/ Login
    \/ ChangeDirectory
    \/ ProbeOriginal
    \/ DownloadOriginal
    \/ Stage
    \/ VerifyStage
    \/ SdDelete
    \/ SdCheck
    \/ SdBakProbe
    \/ SdRename
    \/ Guard
    \/ Commit
    \/ FinalProbe
    \/ FinalDownload
    \/ Drop

\* ------------------------------------------------------- strings
\* A string is a sequence of one-character strings, indexed from 0 by the
\* operators below as in the Arduino String class.
Digit == <<"0", "1", "2", "3", "4", "5", "6", "7", "8", "9">>

\* String(n) for n >= 0: the decimal digits of n
RECURSIVE ToDigits(_)
ToDigits(n) ==
    IF n < 10 THEN <<Digit[n + 1]>>
              ELSE ToDigits(n \div 10) \o <<Digit[(n % 10) + 1]>>

\* the numbers of a tuple written with commas between them
RECURSIVE Join(_)
Join(nums) ==
    IF nums = <<>> THEN <<>>
    ELSE IF Len(nums) = 1 THEN ToDigits(nums[1])
    ELSE ToDigits(nums[1]) \o <<",">> \o Join(Tail(nums))

\* indexOf(ch, from): first index >= from holding ch, -1 if there is none
\* (a negative from, taken as unsigned, is past the end)
indexOf(str, ch, from) ==
    IF from < 0 \/ ~\E i \in from..(Len(str) - 1) : str[i + 1] = ch
      THEN -1
      ELSE CHOOSE i \in from..(Len(str) - 1) :
              /\ str[i + 1] = ch
              /\ \A j \in from..(i - 1) : str[j + 1] # ch

\* substring(left, right): the characters at left .. right-1, with the
\* ends swapped when left > right and right cut at the length
substring(str, left, right) ==
    LET lo == IF left > right THEN right ELSE left
        hi0 == IF left > right THEN left ELSE right
        hi == IF hi0 > Len(str) THEN Len(str) ELSE hi0
    IN IF lo >= Len(str) THEN <<>> ELSE SubSeq(str, lo + 1, hi)

charAt(str, i) == str[i + 1]

isDigit(ch) == \E d \in 1..Len(Digit) : Digit[d] = ch
DigitValue(ch) == (CHOOSE d \in 1..Len(Digit) : Digit[d] = ch) - 1

\* toInt(): the value of the leading decimal digits, 0 if there are none
RECURSIVE toIntFrom(_, _)
toIntFrom(str, acc) ==
    IF str = <<>> \/ ~isDigit(Head(str)) THEN acc
    ELSE toIntFrom(Tail(str), acc * 10 + DigitValue(Head(str)))
toInt(str) == toIntFrom(str, 0)

\* ------------------------------------------------------- parsePassiveMode
\* for (i = 0; i < dataInfo.length() && commaCount < 5; i++): the indexes
\* of the first five commas
RECURSIVE scanCommas(_, _, _)
scanCommas(dataInfo, i, commas) ==
    IF i < Len(dataInfo) /\ Len(commas) < 5
      THEN scanCommas(dataInfo, i + 1,
                      IF charAt(dataInfo, i) = "," THEN Append(commas, i)
                                                   ELSE commas)
      ELSE commas

\* a plausible slip of the port computation
dataPortOf_255(p1, p2) == p1 * 255 + p2

\* dataPort = p1 * 256 + p2
dataPortOf(p1, p2) == p1 * 256 + p2

\* parsePassiveMode(response, dataPort): the return value and the value
\* dataPort has afterwards (port when it is not assigned)
parsePassiveMode(resp, port) ==
    LET start == indexOf(resp, "(", 0)
        end == indexOf(resp, ")", start)
    IN IF start = -1 \/ end = -1
         THEN [ok |-> FALSE, dataPort |-> port]
         ELSE LET dataInfo == substring(resp, start + 1, end)
                  commas == scanCommas(dataInfo, 0, <<>>)
                  commaCount == Len(commas)
              IN IF commaCount = 5
                   THEN LET p1 == toInt(substring(dataInfo, commas[4] + 1,
                                                  commas[5]))
                            p2 == toInt(substring(dataInfo, commas[5] + 1,
                                                  Len(dataInfo)))
                        IN [ok |-> TRUE, dataPort |-> dataPortOf(p1, p2)]
                   ELSE [ok |-> FALSE, dataPort |-> port]

\* PASV replies a server can send: "227 " and a tuple of t.n numbers, the
\* host first, then p1, p2 and further numbers, with or without the
\* parentheses.
Host == <<192, 168, 1, 50>>
Octets == 0..255
SamplePorts == {0, 20, 40, 255, 256}
TupleOf(t) ==
    [i \in 1..t.n |-> IF i <= 4 THEN Host[i]
                      ELSE IF i = 5 THEN t.p1
                      ELSE IF i = 6 THEN t.p2
                      ELSE 7]
Format(t) ==
    <<"2", "2", "7", " ">>
    \o (IF t.open THEN <<"(">> ELSE <<>>)
    \o Join(TupleOf(t))
    \o (IF t.close THEN <<")">> ELSE <<>>)
    \o <<".">>
Tuples ==
    [n : {6}, p1 : Octets, p2 : Octets, open : {TRUE}, close : {TRUE}]
    \cup [n : 0..MaxTokens, p1 : SamplePorts, p2 : SamplePorts,
          open : BOOLEAN, close : BOOLEAN]

\* ------------------------------------------------------- unit runs
\* The upload variables while a single operation is run on its own, on an
\* open control session.
NoUpload ==
    /\ files = [n \in Names |-> Absent]
    /\ connected = TRUE
    /\ pc = "done" /\ attempt = 1 /\ result = FALSE
    /\ createHeader = FALSE /\ originalExists = FALSE /\ fullContent = <<>>
    /\ delAttempt = 1 /\ backupIdx = 0
    /\ backupCounter = 1 /\ renameAttempt = 1
    /\ att = FreshAttempt /\ lastAbort = "none"
    /\ prior = Absent /\ preCanon = Absent /\ earlyFault = FALSE

\* one call of parsePassiveMode on a PASV reply
PasvInit ==
    /\ NoUpload
    /\ tuple \in Tuples
    /\ response = Format(tuple)
    /\ dataPort = 0
    /\ parsed = NotParsed
    /\ probe = NoProbe /\ probed = NotProbed
    /\ NoClient /\ writers = NoWriters /\ NoExtra

ParsePassive ==
    /\ ~parsed.done
    /\ LET r == parsePassiveMode(response, dataPort)
       IN /\ parsed' = [done |-> TRUE, ok |-> r.ok]
          /\ dataPort' = r.dataPort
    /\ UNCHANGED <<tuple, response, probe, probed, clientVars, writers,
                   extraVars>>
    /\ UNCHANGED uploadVars

PasvNext == ParsePassive

\* the probes fileExists() sends, in order, for the replies it gets
probesSent(mlst, size) ==
    IF startsWith(mlst, "250") THEN <<"MLST">>
    ELSE IF startsWith(size, "213") THEN <<"MLST", "SIZE">>
    ELSE IF startsWith(size, "550") /\ size = "550 not allowed"
      THEN <<"MLST", "SIZE", "MDTM">>
    ELSE <<"MLST", "SIZE">>

\* one call of fileExists on a server with given answers to the probes
ProbeInit ==
    /\ NoUpload
    /\ \E present \in BOOLEAN :
       \E m \in MLSTReplies(present), z \in SIZEReplies(present),
          d \in MDTMReplies(present) :
          probe = [present |-> present, mlst |-> m, size |-> z, mdtm |-> d]
    /\ probed = NotProbed
    /\ tuple = NoTuple /\ response = <<>> /\ dataPort = 0
    /\ parsed = NotParsed
    /\ NoClient /\ writers = NoWriters /\ NoExtra

ProbeFile ==
    /\ ~probed.done
    /\ probed' = [done |-> TRUE,
                  value |-> fileExists(probe.mlst, probe.size, probe.mdtm),
                  sent |-> probesSent(probe.mlst, probe.size)]
    /\ UNCHANGED <<tuple, response, dataPort, parsed, probe, clientVars,
                   writers, extraVars>>
    /\ UNCHANGED uploadVars

ProbeNext == ProbeFile

\* ------------------------------------------------------- client runs
\* The operations of FTPClient called one after the other, each followed
\* reply by reply, with the two sockets controlClient and dataClient.
Transfers == {"createFile", "appendToFile", "downloadFile"}
PayloadLens == {0, 1, 512, 513, 1025}      \* content.length() in bytes
ReadLens == {0, 1, 600}                    \* bytes a download delivers

uploadRest == <<files, pc, attempt, result, originalExists, fullContent,
                createHeader, delAttempt, backupIdx, backupCounter,
                renameAttempt, att, lastAbort, prior, preCanon, earlyFault>>
pureVars == <<tuple, response, dataPort, parsed, probe, probed, writers,
              extraVars>>

ClientInit ==
    /\ NoUpload
    /\ NoClient /\ writers = NoWriters /\ NoExtra
    /\ tuple = NoTuple /\ response = <<>> /\ dataPort = 0
    /\ parsed = NotParsed /\ probe = NoProbe /\ probed = NotProbed

\* a call starts: the record of what the latest call did starts afresh
Called(fn) ==
    [log EXCEPT !.calls = @ + 1, !.prev = call.fn, !.quitSent = FALSE,
                !.changed = FALSE]

\* return from the operation with value v (true, or content for a download)
Return(v) ==
    /\ call' = [call EXCEPT !.at = "ret"]
    /\ xfer' = [xfer EXCEPT !.ret = v]

\* the first digit of a reply code, 0 for no reply
ReplyClass(r) ==
    CASE r \in {"120", "125", "150"} -> 1
      [] r \in {"200", "213", "220", "226", "227", "230", "250"} -> 2
      [] r \in {"331", "350"} -> 3
      [] r \in {"421", "426", "452"} -> 4
      [] r \in {"500", "530", "550", "553"} -> 5
      [] OTHER -> 0

\* createFile, appendToFile or downloadFile is called
StartTransfer ==
    /\ call.at = "ret"
    /\ log.calls < MaxCalls
    /\ \E fn \in Transfers, n \in PayloadLens :
          /\ fn = "downloadFile" => n = 0
          /\ call' = [fn |-> fn, at |-> "pasv"]
          /\ xfer' = [XferIdle EXCEPT !.len = n]
          /\ log' = Called(fn)
    /\ UNCHANGED <<connected, dataOpen, uploadRest, pureVars>>

\* TYPE I, PASV and parsePassiveMode
Pasv ==
    /\ call.at = "pasv"
    /\ \E pasv \in PasvReplies :
          IF startsWith(pasv, "227") /\ pasvWellFormed(pasv)
            THEN call' = [call EXCEPT !.at = "dconnect"] /\ xfer' = xfer
            ELSE Return(FALSE)
    /\ UNCHANGED <<connected, dataOpen, log, uploadRest, pureVars>>

\* dataClient.connect(server, dataPort)
DataConnect ==
    /\ call.at = "dconnect"
    /\ \E ok \in BOOLEAN :
          IF ok
            THEN /\ dataOpen' = TRUE
                 /\ log' = [log EXCEPT !.openedWhileOpen = @ \/ dataOpen]
                 /\ call' = [call EXCEPT !.at = "cmd"]
                 /\ xfer' = xfer
            ELSE Return(FALSE) /\ UNCHANGED <<dataOpen, log>>
    /\ UNCHANGED <<connected, uploadRest, pureVars>>

\* a plausible slip: the reply to STOR / RETR is not looked at
transferReady_noCheck(r) == TRUE

\* the reply to STOR, APPE or RETR must start with 150 or 125
transferReady(r) == startsWith(r, "150") \/ startsWith(r, "125")

\* a plausible slip: no dataClient.stop() when the command is rejected
dataAfterReject_leftOpen(open) == open

\* dataClient.stop() on the rejected-command path
dataAfterReject(open) == FALSE

\* STOR, APPE or RETR and its first reply
Command ==
    /\ call.at = "cmd"
    /\ \E r \in Replies({"150", "125", "120", "550", "none"}) :
          IF transferReady(r)
            THEN /\ call' = [call EXCEPT !.at = IF call.fn = "downloadFile"
                                                  THEN "recv" ELSE "send"]
                 /\ xfer' = [xfer EXCEPT !.cmdReply = r]
                 /\ dataOpen' = dataOpen
            ELSE /\ dataOpen' = dataAfterReject(dataOpen)
                 /\ call' = [call EXCEPT !.at = "ret"]
                 /\ xfer' = [xfer EXCEPT !.cmdReply = r, !.ret = FALSE]
    /\ UNCHANGED <<connected, log, uploadRest, pureVars>>

\* byte counts dataClient.print() can return for toSend bytes
Accepted(toSend) ==
    {0, toSend} \cup (IF toSend > 1 THEN {toSend - 1} ELSE {})

\* a plausible slip: a chunk counts as sent when any byte was accepted
chunkAccepted_some(sent, toSend) == sent > 0

\* if (sent != chunk.length()) fails the transfer
chunkAccepted(sent, toSend) == sent = toSend

\* createFile: one round of the send loop, or its exit with flush and stop
SendChunk ==
    /\ call.at = "send" /\ call.fn = "createFile"
    /\ IF xfer.totalSent < xfer.len
         THEN LET remaining == xfer.len - xfer.totalSent
                  toSend == IF remaining < chunkSize THEN remaining
                                                     ELSE chunkSize
              IN \E sent \in Accepted(toSend) :
                 LET x == [xfer EXCEPT !.written = @ + sent,
                                       !.maxChunk = IF toSend > @ THEN toSend
                                                                  ELSE @,
                                       !.short = @ \/ sent # toSend]
                 IN IF ~chunkAccepted(sent, toSend)
                      THEN /\ dataOpen' = FALSE
                           /\ call' = [call EXCEPT !.at = "ret"]
                           /\ xfer' = [x EXCEPT !.ret = FALSE]
                      ELSE /\ xfer' = [x EXCEPT !.totalSent = @ + sent]
                           /\ UNCHANGED <<dataOpen, call>>
         ELSE /\ dataOpen' = FALSE
              /\ call' = [call EXCEPT !.at = "final"]
              /\ xfer' = xfer
    /\ UNCHANGED <<connected, log, uploadRest, pureVars>>

\* appendToFile: dataClient.print(content) unchecked, then stop
SendAll ==
    /\ call.at = "send" /\ call.fn = "appendToFile"
    /\ \E sent \in Accepted(xfer.len) :
          xfer' = [xfer EXCEPT !.written = sent, !.short = sent # xfer.len]
    /\ dataOpen' = FALSE
    /\ call' = [call EXCEPT !.at = "final"]
    /\ UNCHANGED <<connected, log, uploadRest, pureVars>>

\* downloadFile: read until the server closes or the timeout, then stop
Receive ==
    /\ call.at = "recv"
    /\ \E n \in ReadLens : xfer' = [xfer EXCEPT !.read = n]
    /\ dataOpen' = FALSE
    /\ call' = [call EXCEPT !.at = "final"]
    /\ UNCHANGED <<connected, log, uploadRest, pureVars>>

\* the transfer is complete: 226 or 250
completed(final) == startsWith(final, "226") \/ startsWith(final, "250")

\* the final reply; createFile with no reply at all goes on to fileExists
FinalReply ==
    /\ call.at = "final"
    /\ \E final \in Replies({"226", "452", "none"}) :
          IF completed(final)
            THEN /\ call' = [call EXCEPT !.at = "ret"]
                 /\ xfer' = [xfer EXCEPT !.final = final, !.ret = TRUE]
          ELSE IF call.fn = "createFile" /\ final = "none"
            THEN /\ call' = [call EXCEPT !.at = "fallback"]
                 /\ xfer' = [xfer EXCEPT !.final = final]
          ELSE /\ call' = [call EXCEPT !.at = "ret"]
               /\ xfer' = [xfer EXCEPT !.final = final, !.ret = FALSE]
    /\ UNCHANGED <<connected, dataOpen, log, uploadRest, pureVars>>

\* createFile, "No final response received - assuming success":
\* the result is that of fileExists(filename)
Fallback ==
    /\ call.at = "fallback"
    /\ \E e \in FileExistsResults(TRUE) \cup FileExistsResults(FALSE) :
          Return(e)
    /\ UNCHANGED <<connected, dataOpen, log, uploadRest, pureVars>>

\* connect()
ConnectCall ==
    /\ call.at = "ret"
    /\ log.calls < MaxCalls
    /\ \E tcp \in BOOLEAN, greeting \in {"220", "421", "none"} :
          /\ connected' = tcp
          /\ call' = [fn |-> "connect", at |-> "ret"]
          /\ xfer' = [XferIdle EXCEPT !.ret = connectOk(tcp, greeting)]
          /\ log' = [Called("connect") EXCEPT !.changed = connected # tcp]
    /\ UNCHANGED <<dataOpen, uploadRest, pureVars>>

\* a plausible slip: QUIT is sent without asking connected()
quitNeeded_always(conn) == TRUE

\* if (controlClient.connected()) { QUIT; readResponse(); stop(); }
quitNeeded(conn) == conn

\* disconnect()
DisconnectCall ==
    /\ call.at = "ret"
    /\ log.calls < MaxCalls
    /\ connected' = FALSE
    /\ dataOpen' = FALSE
    /\ call' = [fn |-> "disconnect", at |-> "ret"]
    /\ xfer' = XferIdle
    /\ log' = [Called("disconnect") EXCEPT
                  !.quitSent = quitNeeded(connected),
                  !.changed = connected \/ dataOpen]
    /\ UNCHANGED <<uploadRest, pureVars>>

\* the control connection is lost
ControlDrop ==
    /\ connected
    /\ connected' = FALSE
    /\ UNCHANGED <<clientVars, uploadRest, pureVars>>

ClientNext ==
    \/ StartTransfer
    \/ Pasv
    \/ DataConnect
    \/ Command
    \/ SendChunk
    \/ SendAll
    \/ Receive
    \/ FinalReply
    \/ Fallback
    \/ ConnectCall
    \/ DisconnectCall
    \/ ControlDrop

\* ------------------------------------------------------- two writers
\* Two devices run uploadData on the same canonical name at the same time.
\* The server answers every command and tells the truth; one FTP operation
\* of one writer is one step, and the steps of the two interleave.
Writers == {1, 2}
Record(w) == IF w = 1 THEN <<"rA">> ELSE <<"rB">>
SharedPrior == {Absent, <<"H", "r1">>}

FreshWriter ==
    [pc |-> "connect", attempt |-> 1, result |-> FALSE,
     originalExists |-> FALSE, fullContent |-> <<>>, delAttempt |-> 1,
     backupIdx |-> 0, backupCounter |-> 1, renameAttempt |-> 1,
     sawAbsent |-> FALSE]

twoRest == <<connected, pc, attempt, result, originalExists, fullContent,
             createHeader, delAttempt, backupIdx, backupCounter,
             renameAttempt, att, lastAbort, prior, preCanon, earlyFault,
             tuple, response, dataPort, parsed, probe, probed, clientVars,
             extraVars>>

TwoInit ==
    /\ \E p \in SharedPrior :
          /\ prior = p /\ preCanon = p
          /\ files = [n \in Names |-> IF n = filename THEN p ELSE Absent]
    /\ writers = [w \in Writers |-> FreshWriter]
    /\ connected = TRUE
    /\ pc = "done" /\ attempt = 1 /\ result = FALSE
    /\ createHeader = TRUE /\ originalExists = FALSE /\ fullContent = <<>>
    /\ delAttempt = 1 /\ backupIdx = 0
    /\ backupCounter = 1 /\ renameAttempt = 1
    /\ att = FreshAttempt /\ lastAbort = "none" /\ earlyFault = FALSE
    /\ NoClient /\ NoExtra
    /\ tuple = NoTuple /\ response = <<>> /\ dataPort = 0
    /\ parsed = NotParsed /\ probe = NoProbe /\ probed = NotProbed

\* writer w goes on with its locals changed to l
Goes(w, l) == writers' = [writers EXCEPT ![w] = l]

\* "if (attempt < 2) { delay; continue; } return false;" of writer w
Retry(l) ==
    IF l.attempt < MaxUploadAttempts
      THEN [l EXCEPT !.attempt = @ + 1, !.pc = "connect"]
      ELSE [l EXCEPT !.pc = "done", !.result = FALSE]

\* connect(), login() and changeDirectory() of an outer attempt
WConnect(w) ==
    LET l == writers[w] IN
    /\ l.pc = "connect"
    /\ Goes(w, [FreshWriter EXCEPT !.pc = "probe", !.attempt = l.attempt])
    /\ UNCHANGED <<files, twoRest>>

\* fileExists(filename) and, for a new file, the content with its header
WProbe(w) ==
    LET l == writers[w] IN
    /\ l.pc = "probe"
    /\ Goes(w, IF Present(filename)
                 THEN [l EXCEPT !.originalExists = TRUE, !.pc = "download"]
                 ELSE [l EXCEPT !.originalExists = FALSE, !.pc = "stage",
                                !.fullContent =
                                    IF createHeader
                                      THEN <<header>> \o Record(w)
                                      ELSE Record(w)])
    /\ UNCHANGED <<files, twoRest>>

\* downloadFile(filename) and fullContent = existingContent + csvData
WDownload(w) ==
    LET l == writers[w]
        existingContent == IF Present(filename) THEN files[filename]
                                                ELSE <<>>
    IN
    /\ l.pc = "download"
    /\ Goes(w, IF downloadFailed(existingContent)
                 THEN Retry(l)
                 ELSE [l EXCEPT !.fullContent = existingContent \o Record(w),
                                !.pc = "stage"])
    /\ UNCHANGED <<files, twoRest>>

\* createFile(tempFilename, fullContent)
WStage(w) ==
    LET l == writers[w] IN
    /\ l.pc = "stage"
    /\ files' = [files EXCEPT ![tempFilename] = l.fullContent]
    /\ Goes(w, [l EXCEPT !.pc = "verify"])
    /\ UNCHANGED twoRest

\* downloadFile(tempFilename) and the comparison of the lengths; on a
\* mismatch deleteFile(tempFilename)
WVerify(w) ==
    LET l == writers[w]
        verifyContent == IF Present(tempFilename) THEN files[tempFilename]
                                                  ELSE <<>>
    IN
    /\ l.pc = "verify"
    /\ IF stageVerified(verifyContent, l.fullContent)
         THEN /\ Goes(w, [l EXCEPT !.pc = IF l.originalExists
                                            THEN "sd_delete" ELSE "guard"])
              /\ files' = files
         ELSE /\ Goes(w, Retry(l))
              /\ files' = [files EXCEPT ![tempFilename] = Absent]
    /\ UNCHANGED twoRest

\* safeDeleteFile has given up: deleteFile(tempFilename) and the next
\* attempt
GivesUp(w, l) ==
    /\ Goes(w, Retry(l))
    /\ files' = [files EXCEPT ![tempFilename] = Absent]

\* the next round of the delete loop, or the backup fallback after it
NextDelete(l) ==
    IF l.delAttempt < maxAttempts
      THEN [l EXCEPT !.delAttempt = @ + 1, !.pc = "sd_delete"]
      ELSE [l EXCEPT !.pc = "sd_bak"]

\* safeDeleteFile: deleteFile(filename); DELE fails for a name not there
WSdDelete(w) ==
    LET l == writers[w] IN
    /\ l.pc = "sd_delete"
    /\ IF Present(filename)
         THEN /\ files' = [files EXCEPT ![filename] = Absent]
              /\ Goes(w, [l EXCEPT !.pc = "sd_check"])
         ELSE /\ files' = files
              /\ Goes(w, NextDelete(l))
    /\ UNCHANGED twoRest

\* safeDeleteFile: fileExists(filename) after a DELE that succeeded
WSdCheck(w) ==
    LET l == writers[w] IN
    /\ l.pc = "sd_check"
    /\ Goes(w, IF deleteVerified(Present(filename))
                 THEN [l EXCEPT !.pc = "guard"]
                 ELSE NextDelete(l))
    /\ UNCHANGED <<files, twoRest>>

\* safeDeleteFile: one round of "while (fileExists(backupName))"
WSdBakProbe(w) ==
    LET l == writers[w] IN
    /\ l.pc = "sd_bak"
    /\ IF Present(BackupName(l.backupIdx))
         THEN IF l.backupCounter + 1 > MaxBackupCounter
                THEN GivesUp(w, l)
                ELSE /\ Goes(w, [l EXCEPT !.backupIdx = l.backupCounter,
                                          !.backupCounter = @ + 1])
                     /\ files' = files
         ELSE /\ Goes(w, [l EXCEPT !.pc = "sd_rename"])
              /\ files' = files
    /\ UNCHANGED twoRest

\* safeDeleteFile: renameFile(filename, backupName), at most three times
WSdRename(w) ==
    LET l == writers[w] IN
    /\ l.pc = "sd_rename"
    /\ IF Present(filename)
         THEN /\ files' = [files EXCEPT ![BackupName(l.backupIdx)] =
                                            files[filename],
                                        ![filename] = Absent]
              /\ Goes(w, [l EXCEPT !.pc = "guard"])
         ELSE IF l.renameAttempt < MaxRenameAttempts
                THEN /\ Goes(w, [l EXCEPT !.renameAttempt = @ + 1])
                     /\ files' = files
                ELSE GivesUp(w, l)
    /\ UNCHANGED twoRest

\* STEP 7: fileExists(filename) just before the rename
WGuard(w) ==
    LET l == writers[w]
        e == Present(filename)
    IN
    /\ l.pc = "guard"
    /\ Goes(w, IF guardBlocks(e)
                 THEN Retry(l)
                 ELSE [l EXCEPT !.pc = "commit", !.sawAbsent = ~e])
    /\ UNCHANGED <<files, twoRest>>

\* STEP 8: renameFile(tempFilename, filename); RNFR fails for a name not
\* there
WCommit(w) ==
    LET l == writers[w] IN
    /\ l.pc = "commit"
    /\ IF Present(tempFilename)
         THEN /\ files' = [files EXCEPT ![filename] = files[tempFilename],
                                        ![tempFilename] = Absent]
              /\ Goes(w, [l EXCEPT !.pc = "finalProbe"])
         ELSE /\ files' = files
              /\ Goes(w, Retry(l))
    /\ UNCHANGED twoRest

\* final verification: fileExists(filename)
WFinalProbe(w) ==
    LET l == writers[w] IN
    /\ l.pc = "finalProbe"
    /\ Goes(w, IF Present(filename) THEN [l EXCEPT !.pc = "finalDownload"]
                                    ELSE Retry(l))
    /\ UNCHANGED <<files, twoRest>>

\* final verification: downloadFile(filename) and the lengths compared
WFinalDownload(w) ==
    LET l == writers[w]
        finalContent == IF Present(filename) THEN files[filename] ELSE <<>>
    IN
    /\ l.pc = "finalDownload"
    /\ Goes(w, IF length(finalContent) = length(l.fullContent)
                 THEN [l EXCEPT !.pc = "done", !.result = TRUE]
                 ELSE Retry(l))
    /\ UNCHANGED <<files, twoRest>>

TwoNext ==
    \E w \in Writers :
        \/ WConnect(w)
        \/ WProbe(w)
        \/ WDownload(w)
        \/ WStage(w)
        \/ WVerify(w)
        \/ WSdDelete(w)
        \/ WSdCheck(w)
        \/ WSdBakProbe(w)
        \/ WSdRename(w)
        \/ WGuard(w)
        \/ WCommit(w)
        \/ WFinalProbe(w)
        \/ WFinalDownload(w)

\* ------------------------------------------------------- wake cycle
\* setup() of main.cpp from wake-up to deep sleep; uploadData is one step
\* here, with either result.
NoUnit ==
    /\ tuple = NoTuple /\ response = <<>> /\ dataPort = 0
    /\ parsed = NotParsed /\ probe = NoProbe /\ probed = NotProbed
    /\ NoClient /\ writers = NoWriters

FreshCycle == [NoCycle EXCEPT !.at = "init"]

CycleInit ==
    /\ NoUpload /\ NoUnit
    /\ cycle = FreshCycle
    /\ stream = NoStream /\ compose = NoCompose

cycleRest == <<uploadVars, tuple, response, dataPort, parsed, probe, probed,
               clientVars, writers, stream, compose>>

\* initializeBME280(); on failure scanI2CDevices(), goToSleep(), return
InitializeSensor ==
    /\ cycle.at = "init"
    /\ \E ok \in BOOLEAN :
          cycle' = [cycle EXCEPT !.sensorOk = ok,
                                 !.at = IF ok THEN "collect" ELSE "sleep"]
    /\ UNCHANGED cycleRest

\* collectSensorReadings(): one round of the loop over the readings
ReadSample ==
    /\ cycle.at = "collect"
    /\ cycle.i < READINGS_PER_CYCLE
    /\ \E valid \in BOOLEAN :
          cycle' = [cycle EXCEPT
                      !.i = @ + 1,
                      !.sampleCount = IF valid THEN @ + 1 ELSE @,
                      !.at = IF cycle.i + 1 < READINGS_PER_CYCLE
                               THEN "collect" ELSE "wifi"]
    /\ UNCHANGED cycleRest

\* a plausible slip: the cycle goes on without a WiFi connection
afterWifi_anyway(ok) == "ntp"

\* if (!connectToWiFi()) { goToSleep(); return; }
afterWifi(ok) == IF ok THEN "ntp" ELSE "sleep"

\* connectToWiFi()
ConnectWiFi ==
    /\ cycle.at = "wifi"
    /\ \E ok \in BOOLEAN :
          cycle' = [cycle EXCEPT !.wifiOk = ok, !.at = afterWifi(ok)]
    /\ UNCHANGED cycleRest

\* syncTime(): one round of its loop; setup() goes on whatever it returns
SyncTime ==
    /\ cycle.at = "ntp"
    /\ \E ok \in BOOLEAN :
          cycle' = [cycle EXCEPT
                      !.ntpAttempts = @ + 1,
                      !.ntpOk = ok,
                      !.at = IF ok \/ cycle.ntpAttempts + 1 >= maxNtpAttempts
                               THEN "upload" ELSE "ntp"]
    /\ UNCHANGED cycleRest

\* uploadDataToFTP(): the record is built and uploadData is called
UploadRecord ==
    /\ cycle.at = "upload"
    /\ \E r \in BOOLEAN :
          cycle' = [cycle EXCEPT !.uploads = @ + 1, !.uploadSuccess = r,
                                 !.at = "powerdown"]
    /\ UNCHANGED cycleRest

\* WiFi.disconnect(true), WiFi.mode(WIFI_OFF) and goToSleep()
PowerDown ==
    /\ cycle.at = "powerdown"
    /\ cycle' = [cycle EXCEPT !.at = "sleep"]
    /\ UNCHANGED cycleRest

\* the sleep timer fires: the device resets and setup() starts again
Wake ==
    /\ cycle.at = "sleep"
    /\ cycle.wakes < MaxWakes
    /\ cycle' = [FreshCycle EXCEPT !.wakes = cycle.wakes + 1]
    /\ UNCHANGED cycleRest

CycleStep ==
    \/ InitializeSensor
    \/ ReadSample
    \/ ConnectWiFi
    \/ SyncTime
    \/ UploadRecord
    \/ PowerDown

CycleNext == CycleStep \/ Wake

\* ------------------------------------------------------- composition
\* One outer attempt of uploadData followed on its strings, byte by byte:
\* the content composed in STEP 1 and 2, the read-back of STEP 3.5 and
\* the final verification.  A string is a sequence of characters.
CRLF == <<"\r", "\n">>
HLine == <<"H">> \o CRLF
Row1 == <<"r", "o", "w", "1">> \o CRLF
Row2 == <<"r", "o", "w", "2">> \o CRLF
\* the header of uploadData, shortened to its first field
headerText == <<"D", "a", "t", "e">> \o CRLF

CanonTexts == {<<>>, HLine, Row1, HLine \o Row1, headerText \o Row1}
RecordTexts == {<<>>, Row2, <<"x">> \o CRLF}

ComposeInit ==
    /\ NoUpload /\ NoUnit
    /\ cycle = NoCycle /\ stream = NoStream
    /\ \E here \in BOOLEAN, c \in CanonTexts, r \in RecordTexts,
          h \in BOOLEAN :
          /\ ~here => c = <<>>
          /\ compose = [NoCompose EXCEPT !.at = "probe", !.present = here,
                                         !.canon = c, !.record = r,
                                         !.withHeader = h]

composeRest == <<uploadVars, tuple, response, dataPort, parsed, probe,
                 probed, clientVars, writers, cycle, stream>>

\* fileExists(filename), and the content of a new object
CProbe ==
    /\ compose.at = "probe"
    /\ compose' =
          IF compose.present
            THEN [compose EXCEPT !.exists = TRUE, !.at = "download"]
            ELSE [compose EXCEPT
                    !.exists = FALSE, !.at = "stage",
                    !.full = IF compose.withHeader
                               THEN headerText \o compose.record
                               ELSE compose.record]
    /\ UNCHANGED composeRest

\* downloadFile(filename), "" when it fails, and
\* fullContent = existingContent + csvData
CDownload ==
    /\ compose.at = "download"
    /\ \E ok \in BOOLEAN :
          LET existingContent == IF ok THEN compose.canon ELSE <<>>
          IN compose' =
               IF Len(existingContent) = 0
                 THEN [compose EXCEPT !.at = "aborted"]
                 ELSE [compose EXCEPT
                         !.full = existingContent \o compose.record,
                         !.at = "stage"]
    /\ UNCHANGED composeRest

\* what a STOR of text may leave on the server
StoredTexts(text) ==
    {text, <<>>} \cup
    (IF Len(text) > 0 THEN {SubSeq(text, 1, Len(text) - 1)} ELSE {})

\* createFile(tempFilename, fullContent)
CStage ==
    /\ compose.at = "stage"
    /\ \E stored \in StoredTexts(compose.full), ret \in BOOLEAN :
          compose' = IF ret THEN [compose EXCEPT !.temp = stored,
                                                 !.at = "verify"]
                            ELSE [compose EXCEPT !.temp = stored,
                                                 !.at = "aborted"]
    /\ UNCHANGED composeRest

\* a plausible slip: a read-back shorter than the staged content passes
sizeMatches_atMost(read, full) == Len(read) <= Len(full)

\* verifyContent.length() != fullContent.length(), and the same test of
\* finalContent
sizeMatches(read, full) == Len(read) = Len(full)

\* STEP 3.5: downloadFile(tempFilename), "" when it fails, and the test
CVerify ==
    /\ compose.at = "verify"
    /\ \E ok \in BOOLEAN :
          LET verifyContent == IF ok THEN compose.temp ELSE <<>>
              pass == sizeMatches(verifyContent, compose.full)
          IN compose' = [compose EXCEPT
                           !.verifyContent = verifyContent,
                           !.readOk = ok,
                           !.verified = pass,
                           !.at = IF pass THEN "commit" ELSE "aborted"]
    /\ UNCHANGED composeRest

\* STEP 5 to 8: the canonical object is removed and the temporary object
\* renamed to its name, or the attempt ends
CCommit ==
    /\ compose.at = "commit"
    /\ \E renamed \in BOOLEAN :
          compose' = IF renamed
                       THEN [compose EXCEPT !.canon = compose.temp,
                                            !.present = TRUE,
                                            !.at = "final"]
                       ELSE [compose EXCEPT !.at = "aborted"]
    /\ UNCHANGED composeRest

\* final verification: fileExists(filename), downloadFile(filename), ""
\* when it fails, and the test of the lengths
CFinal ==
    /\ compose.at = "final"
    /\ \E found \in BOOLEAN, ok \in BOOLEAN :
          LET finalContent == IF ok THEN compose.canon ELSE <<>>
          IN compose' = [compose EXCEPT
                           !.finalContent = IF found THEN finalContent
                                                     ELSE <<>>,
                           !.finalOk = found /\ ok,
                           !.success = found /\ sizeMatches(finalContent,
                                                            compose.full),
                           !.at = "done"]
    /\ UNCHANGED composeRest

ComposeNext ==
    \/ CProbe
    \/ CDownload
    \/ CStage
    \/ CVerify
    \/ CCommit
    \/ CFinal

\* ------------------------------------------------------- control stream
\* Commands sent one after the other on the control connection and the
\* calls of readResponse() that fetch their replies.  A line carries the
\* number of the command the server wrote it for, the number of the reply
\* to that command it belongs to, and whether it ends that reply.
Line(c, r, last) == [cmd |-> c, reply |-> r, last |-> last]

\* what the server writes for command c: one reply of one line, one reply
\* of two lines, or a preliminary and a final reply (150, then 226)
Written(c, kind) ==
    CASE kind = "single" -> <<Line(c, 1, TRUE)>>
      [] kind = "multi"  -> <<Line(c, 1, FALSE), Line(c, 1, TRUE)>>
      [] kind = "transfer" -> <<Line(c, 1, TRUE), Line(c, 2, TRUE)>>

StreamInit ==
    /\ NoUpload /\ NoUnit
    /\ cycle = NoCycle /\ compose = NoCompose
    /\ stream = [NoStream EXCEPT !.at = "send"]

streamRest == <<uploadVars, tuple, response, dataPort, parsed, probe,
                probed, clientVars, writers, cycle, compose>>

\* controlClient.printf(<command>): the server writes its answer, which
\* is under way to the client; a transfer command is followed by two
\* calls of readResponse(), any other by one
SendCommand ==
    /\ stream.at = "send"
    /\ stream.cmd < MaxCommands
    /\ \E kind \in {"single", "multi", "transfer"} :
          stream' = [stream EXCEPT
                       !.cmd = @ + 1,
                       !.reads = IF kind = "transfer" THEN 2 ELSE 1,
                       !.wire = @ \o Written(stream.cmd + 1, kind),
                       !.at = "read"]
    /\ UNCHANGED streamRest

\* a line reaches the client
Arrive ==
    /\ stream.at # "off"
    /\ stream.wire # <<>>
    /\ stream' = [stream EXCEPT !.wire = Tail(@),
                                 !.inbox = Append(@, Head(stream.wire))]
    /\ UNCHANGED streamRest

\* the position after a call of readResponse()
AfterRead(st) ==
    [st EXCEPT !.reads = @ - 1, !.calls = @ + 1,
               !.at = IF st.reads > 1 THEN "read" ELSE "send"]

\* readResponse() with data available: readString() takes all that has
\* arrived, and the loop ends because the text ends with a line end
ReadResponse ==
    /\ stream.at = "read"
    /\ stream.inbox # <<>>
    /\ stream' = AfterRead([stream EXCEPT !.got = stream.inbox,
                                          !.inbox = <<>>,
                                          !.usedFor = stream.cmd])
    /\ UNCHANGED streamRest

\* readResponse() with nothing available for 5 seconds: "" is returned
ReadTimeout ==
    /\ stream.at = "read"
    /\ stream.inbox = <<>>
    /\ stream' = AfterRead([stream EXCEPT !.got = <<>>,
                                          !.usedFor = stream.cmd])
    /\ UNCHANGED streamRest

StreamNext ==
    \/ SendCommand
    \/ Arrive
    \/ ReadResponse
    \/ ReadTimeout

\* ======================================================= properties

Backups == {BackupName(i) : i \in 0..(MaxBackupCounter - 1)}

returned == pc = "done"
\* the canonical object held data before the invocation
hadContent == prior # Absent /\ prior # <<>>
\* an outer attempt has concluded: the next one is about to start, or
\* uploadData has returned
concluded == pc = "done" \/ (pc = "connect" /\ attempt > 1)

\* c is base followed by zero or more copies of the record
Extends(base, c) ==
    /\ c # Absent
    /\ Len(c) >= Len(base)
    /\ Prefix(c, Len(base)) = base
    /\ \A i \in (Len(base) + 1)..Len(c) : <<c[i]>> = csvData

\* C1: whenever uploadData returns success the canonical content is exactly
\* the prior content followed by the record, or, when there was no prior
\* object, the record preceded by the header if createHeader is set.
AppendCorrect ==
    (returned /\ result) =>
        IF hadContent THEN files[filename] = prior \o csvData
                      ELSE files[filename] \in {NewContent, csvData}

\* C2: when uploadData has returned failure and every failure of the
\* invocation was at staging or later, the content the canonical object had
\* before the invocation is still at the canonical name or at a backup
\* name.
NoLoss ==
    (returned /\ ~result /\ hadContent /\ ~earlyFault) =>
        \/ files[filename] = prior
        \/ \E b \in Backups : files[b] = prior

\* C3: within an outer attempt, a DELE of the canonical object or a rename
\* of it to a backup name is only issued after the read-back of the staged
\* temporary object returned content of the staged length.
NoRemovalBeforeVerify == (att.deleCanon \/ att.bakRename) => att.verified
RemovalIssued == att.deleCanon /\ att.bakRename

\* C4: the commit rename is only issued after a read-back of the staged
\* length in the same attempt; after a read-back of another length the
\* attempt has ended, a DELE of the temporary object was issued and no
\* commit rename was issued.
CommitOnlyVerified ==
    /\ att.commit => att.verified
    /\ att.mismatch => (concluded /\ att.deleTemp /\ ~att.commit)
MismatchAborted == att.mismatch /\ att.deleTemp /\ attempt = 2

\* C5: whenever uploadData has returned, a canonical object that existed
\* before still exists and holds the prior content followed only by copies
\* of the record; one that did not exist is absent or holds the content of
\* a new object followed only by copies of the record.
CanonicalConsistent ==
    returned =>
        IF hadContent
          THEN Extends(prior, files[filename])
          ELSE \/ files[filename] = prior
               \/ Extends(NewContent, files[filename])
               \/ Extends(csvData, files[filename])

\* C6: when an outer attempt has concluded, by commit, abort or exhaustion
\* of the attempts, there is no object at the temporary name.
NoStaleTemp == concluded => files[tempFilename] = Absent

\* C7: the backup path of safeDeleteFile is entered exactly when maxAttempts
\* delete attempts went unconfirmed, and when the backup rename succeeds the
\* backup object holds the canonical content from the start of the attempt,
\* the canonical name is free and the attempt is at the guard check.
StuckDeleteBackup ==
    /\ [](pc \in {"sd_bak", "sd_rename"} => att.delFails = maxAttempts)
    /\ [](att.delFails = maxAttempts =>
             \/ pc \in {"sd_bak", "sd_rename"}
             \/ att.bakRenamed
             \/ att.sdFail # "none")
    /\ [][(pc = "sd_rename" /\ att'.bakRenamed) =>
             /\ pc' = "guard"
             /\ att.delFails = maxAttempts
             /\ files'[BackupName(backupIdx)] = preCanon
             /\ preCanon # Absent
             /\ files'[filename] = Absent]_vars
BackupTaken ==
    /\ att.bakRenamed /\ pc = "commit"
    /\ files[BackupName(backupIdx)] = prior

CommitFailureFatal == lastAbort = "commit" => (returned /\ ~result)

\* C10: when the original could be neither deleted nor renamed to a backup,
\* uploadData has returned failure with no further outer attempt, and both
\* the canonical and the temporary object are still on the server.
StuckLeavesBoth ==
    lastAbort = "sd_exhausted" =>
        /\ returned /\ ~result
        /\ files[filename] # Absent
        /\ files[tempFilename] # Absent

\* number of copies of the record in content c
Occurrences(c) == Cardinality({i \in 1..Len(c) : <<c[i]>> = csvData})

\* reasons for which an attempt ends before the commit rename is issued
PreCommitAborts ==
    {"connect", "login", "cwd", "memory", "download", "stage", "lost",
     "verify", "sd_lost", "sd_toomany", "sd_exhausted", "guard"}

\* C11: when the first outer attempt aborted before the commit rename and
\* the second returned success, the canonical content holds the record
\* exactly once.
RetryIdempotent ==
    (returned /\ result /\ attempt = 2 /\ lastAbort \in PreCommitAborts) =>
        Occurrences(files[filename]) = 1
RetriedAfterStaging ==
    /\ returned /\ result /\ attempt = 2 /\ lastAbort = "guard"
    /\ hadContent /\ files[filename] = prior \o csvData

\* C12: after a final verification that failed in attempt 1 a second
\* attempt runs on a canonical object that already holds the record; when
\* it finds and downloads that object it stages the content with the record
\* appended again.  The witness is a success return with the record twice.
RetryAfterCommitAppendsAgain ==
    /\ lastAbort = "final" => attempt = 2
    /\ (lastAbort = "final"
          /\ pc \in {"connect", "login", "cwd", "probe", "download"}) =>
            Occurrences(files[filename]) = 1
    /\ (lastAbort = "final" /\ pc = "stage" /\ originalExists) =>
            /\ fullContent = files[filename] \o csvData
            /\ Occurrences(fullContent) = 2
DuplicateReturned ==
    /\ returned /\ result /\ lastAbort = "final"
    /\ Occurrences(files[filename]) = 2

\* C13: there are at most 2 outer attempts and the second only follows an
\* abort of the first; before its probe the second attempt holds no
\* existence flag, downloaded or staged content, what it stages is built
\* from its own probe and download, and failure is only returned after the
\* second attempt aborted.
SecondAttemptFromScratch ==
    /\ attempt \in 1..2
    /\ attempt = 2 => lastAbort # "none"
    /\ (attempt = 2 /\ pc \in {"login", "cwd", "probe"}) =>
            /\ ~originalExists /\ fullContent = <<>>
            /\ ~att.staged /\ ~att.verified
    /\ (attempt = 2 /\ pc \in {"download", "stage"} /\ originalExists) =>
            Present(filename)
    /\ (attempt = 2 /\ pc = "stage") =>
            fullContent = IF originalExists THEN files[filename] \o csvData
                                           ELSE NewContent
    /\ (returned /\ ~result) => (attempt = 2 /\ lastAbort # "none")
SecondAttemptReprobed ==
    /\ attempt = 2 /\ pc = "stage" /\ hadContent
    /\ ~originalExists /\ ~Present(filename) /\ lastAbort = "commit"

\* C14: when an outer attempt has concluded the control connection is
\* closed.
ConnectionsReleased == concluded => ~connected

\* C15: uploadData eventually returns, after at most 2 outer attempts and,
\* in each attempt, at most 5 DELE commands for the canonical object, at
\* most 10 backup-name probes and at most 3 backup renames.
Terminates ==
    /\ <>returned
    /\ [](/\ attempt <= 2
          /\ att.deles <= 5
          /\ att.bakProbes <= 10
          /\ att.bakRenames <= 3)
BudgetsUsedUp ==
    /\ returned /\ attempt = 2
    /\ att.deles = 5 /\ att.bakProbes = 10 /\ att.bakRenames = 3

\* C16: the backup rename goes to the first name of .bak, .bak1, .bak2, ..
\* that the probe did not report existing, every name before it was
\* reported existing, and after 10 names reported existing safeDeleteFile
\* has failed without issuing a rename.
BackupNaming ==
    /\ (pc = "sd_rename" \/ att.bakTarget # "none") =>
            /\ att.bakSeen = {BakNames[i] : i \in 1..backupIdx}
            /\ att.bakProbes = backupIdx + 1
    /\ att.bakTarget # "none" =>
            /\ att.bakTarget = BakNames[Cardinality(att.bakSeen) + 1]
            /\ att.bakTarget \notin att.bakSeen
    /\ att.sdFail = "sd_toomany" =>
            /\ att.bakTarget = "none" /\ ~att.bakRename
            /\ Cardinality(att.bakSeen) = 10
SecondNameTaken ==
    /\ att.bakRenamed /\ att.bakTarget = "bak1"
    /\ files["bak"] = OldBackup /\ files["bak1"] = preCanon

\* the steps of uploadData; each ends within the reply timeouts
Step ==
    \/ Connect
    \/ Login
    \/ ChangeDirectory
    \/ ProbeOriginal
    \/ DownloadOriginal
    \/ Stage
    \/ VerifyStage
    \/ SdDelete
    \/ SdCheck
    \/ SdBakProbe
    \/ SdRename
    \/ Guard
    \/ Commit
    \/ FinalProbe
    \/ FinalDownload

\* C24: with two writers on one canonical name the commit rename of a
\* writer still follows a guard probe that saw the name absent, and when
\* both writers have returned success the canonical object is there with
\* the record of at least one of them; that it holds both is not assured.
Holds(w) == \E i \in 1..Len(files[filename]) :
                <<files[filename][i]>> = Record(w)
BothSucceeded ==
    \A w \in Writers : writers[w].pc = "done" /\ writers[w].result
GuardedNotExclusive ==
    /\ \A w \in Writers :
          writers[w].pc \in {"commit", "finalProbe", "finalDownload"} =>
              writers[w].sawAbsent
    /\ BothSucceeded =>
          (Present(filename) /\ \E w \in Writers : Holds(w))
RecordLost ==
    /\ BothSucceeded
    /\ Present(filename)
    /\ \E w \in Writers : ~Holds(w)

\* C25: the commit rename is only issued after the probe of the canonical
\* name just before it reported the name absent; after a probe that
\* reported it present the attempt has ended and no rename was issued.
GuardBeforeCommit ==
    /\ att.commit => (att.guard /\ ~att.guardFound)
    /\ pc = "commit" => att.guard
    /\ att.guardFound => (concluded /\ lastAbort = "guard" /\ ~att.commit)
GuardAborted ==
    /\ att.guardFound /\ att.removed /\ attempt = 2 /\ pc = "connect"
    /\ files[filename] # Absent /\ files[tempFilename] # Absent

\* C26: after a download of an existing canonical object that gave no
\* bytes the attempt has ended with no STOR, DELE or rename issued, and
\* what is staged for an object that was found is longer than the record.
EmptyBaseAborts ==
    /\ att.dlEmpty =>
          /\ concluded /\ lastAbort = "download"
          /\ ~att.storIssued /\ ~att.staged /\ ~att.deleCanon
          /\ ~att.deleTemp /\ ~att.bakRename /\ ~att.commit
    /\ (att.storIssued /\ originalExists) =>
          length(fullContent) > length(csvData)
EmptyDownloadAborted ==
    /\ att.dlEmpty /\ returned /\ ~result /\ originalExists
    /\ hadContent /\ files[filename] = prior

\* C27: a delete is confirmed only by a 250 to DELE followed by a probe
\* that reports the file absent; every other delete attempt counts as
\* unconfirmed, the probe is only sent after a 250, and the backup path is
\* entered after 5 DELE commands, all unconfirmed.
DeleteConfirmed ==
    /\ (att.removed /\ ~att.bakRenamed) => (att.deleOk /\ att.gone)
    /\ pc = "sd_check" => att.deleOk
    /\ pc = "sd_delete" =>
          /\ delAttempt \in 1..5
          /\ att.deles = delAttempt - 1 /\ att.delFails = delAttempt - 1
    /\ pc \in {"sd_bak", "sd_rename"} =>
          (att.deles = 5 /\ att.delFails = 5)
ConfirmedOnRetry ==
    /\ pc = "guard" /\ att.removed /\ ~att.bakRenamed
    /\ att.delFails = 2 /\ att.deles = 3 /\ files[filename] = Absent

\* C30: a file command is only issued in an attempt in which the greeting,
\* the login and the directory change succeeded, and an attempt that ended
\* at one of the three issued no file command.
SessionBeforeFiles ==
    /\ (\/ att.fileCmd \/ att.storIssued \/ att.deleCanon \/ att.deleTemp
        \/ att.bakRename \/ att.commit
        \/ pc \in {"probe", "download", "stage", "verify", "sd_delete",
                   "sd_check", "sd_bak", "sd_rename", "guard", "commit",
                   "finalProbe", "finalDownload"}) =>
          (att.greeted /\ att.loggedIn /\ att.session)
    /\ att.session => att.loggedIn
    /\ att.loggedIn => att.greeted
    /\ (concluded /\ ~(att.greeted /\ att.loggedIn /\ att.session)) =>
          (~att.fileCmd /\ lastAbort \in {"connect", "login", "cwd"})
DirectoryRejected ==
    /\ returned /\ ~result /\ att.greeted /\ att.loggedIn /\ ~att.session
    /\ ~att.fileCmd /\ files[filename] = prior /\ hadContent

\* C21: createFile and downloadFile only report success after a final
\* reply of class 2xx.
TransferNeedsCompletion ==
    (call.at = "ret" /\ call.fn \in {"createFile", "downloadFile"}
        /\ xfer.ret) =>
        ReplyClass(xfer.final) = 2

\* C22: when an operation has returned the data connection is closed, the
\* data connection is only open between the data connect and the end of
\* the payload, and no data connect was made while it was open.
OneDataConnection ==
    /\ call.at = "ret" => ~dataOpen
    /\ dataOpen => call.at \in {"cmd", "send", "recv"}
    /\ ~log.openedWhileOpen
SecondTransferOpened ==
    /\ log.calls = 2 /\ log.prev = "createFile"
    /\ call.fn = "downloadFile" /\ call.at = "recv" /\ dataOpen

\* C23: after disconnect() both connections are closed, and a disconnect()
\* that follows a disconnect() sends no QUIT and changes nothing.
DisconnectIdempotent ==
    /\ call.fn = "disconnect" => (~connected /\ ~dataOpen)
    /\ (call.fn = "disconnect" /\ log.prev = "disconnect") =>
          (~log.quitSent /\ ~log.changed)
DisconnectedTwice ==
    /\ call.fn = "disconnect" /\ log.prev = "disconnect"
    /\ log.calls = MaxCalls

\* C28: after a reply to STOR or RETR that is not of class 1xx the
\* operation has returned failure, no payload byte was written or read and
\* the data connection is closed.
RejectedMovesNothing ==
    (/\ call.fn \in {"createFile", "downloadFile"}
     /\ xfer.cmdReply # "unsent"
     /\ ReplyClass(xfer.cmdReply) # 1) =>
        /\ call.at = "ret" /\ ~xfer.ret
        /\ xfer.written = 0 /\ xfer.read = 0
        /\ ~dataOpen
StorRejected ==
    /\ call.fn = "createFile" /\ xfer.cmdReply = "550" /\ xfer.len = 513
    /\ call.at = "ret"

\* C29: createFile hands at most 512 bytes to one write, a write that was
\* accepted in part ends the call with failure, the data connection closed
\* and no final reply read, and once the send loop is over all bytes of
\* the payload were sent.
ChunkedSend ==
    call.fn = "createFile" =>
        /\ xfer.maxChunk <= 512
        /\ xfer.short =>
              /\ call.at = "ret" /\ ~xfer.ret
              /\ ~dataOpen /\ xfer.final = "unread"
        /\ (call.at \in {"final", "fallback"} \/ xfer.final # "unread") =>
              (xfer.totalSent = xfer.len /\ xfer.written = xfer.len)
ThreeChunksSent ==
    /\ call.fn = "createFile" /\ call.at = "ret" /\ xfer.ret
    /\ xfer.len = 1025 /\ xfer.totalSent = 1025 /\ xfer.maxChunk = 512

\* replies of the same class: the same first digit of the code
SameClass(r1, r2) == ReplyClass(Code(r1)) = ReplyClass(Code(r2))
ProbeReplies == {"250", "213", "500", "550", "550 not allowed", "none"}

\* C31: the outcome of fileExists and the probes it sends are the same for
\* any replies of the same classes as the ones received.
ClassDecides ==
    probed.done =>
        \A m \in ProbeReplies, z \in ProbeReplies, d \in ProbeReplies :
            (/\ SameClass(m, probe.mlst) /\ SameClass(z, probe.size)
             /\ SameClass(d, probe.mdtm)) =>
                /\ fileExists(m, z, d) = probed.value
                /\ probesSent(m, z) = probed.sent

\* the scenario "append to existing": the canonical content is
\* "H\r\nrow1\r\n", the record is "row2\r\n" and the content was composed
Scenario ==
    /\ compose.canon = HLine \o Row1 /\ compose.record = Row2
    /\ compose.exists /\ compose.at \in {"stage", "verify", "commit"}

\* C33: in the scenario the staged content is "H\r\nrow1\r\nrow2\r\n", and
\* a read-back that lets the commit go on has the staged length, 14 bytes.
StagedLengthFourteen ==
    Scenario =>
        /\ compose.full = HLine \o Row1 \o Row2
        /\ Len(compose.full) = 14
        /\ compose.at = "commit" => Len(compose.verifyContent) = 14

\* C33, amended: in the scenario the staged content is
\* "H\r\nrow1\r\nrow2\r\n", and a read-back that lets the commit go on has
\* the staged length, 15 bytes.
StagedLengthFifteen ==
    Scenario =>
        /\ compose.full = HLine \o Row1 \o Row2
        /\ Len(compose.full) = 15
        /\ compose.at = "commit" => Len(compose.verifyContent) = 15
ScenarioVerified ==
    /\ Scenario /\ compose.at = "commit" /\ compose.verified
    /\ compose.verifyContent = HLine \o Row1 \o Row2

\* C40: the read-back test of the staged object and the final test pass
\* only after a download that succeeded.
VerifiedMeansRead ==
    /\ compose.verified => compose.readOk
    /\ compose.success => compose.finalOk

\* C32: what a call of readResponse() returns, if anything, is exactly
\* one reply: all lines of one reply of one command, up to and including
\* its last line.
OneReplyPerCall ==
    stream.got # <<>> =>
        /\ \A i \in 1..Len(stream.got) :
              /\ stream.got[i].cmd = stream.got[1].cmd
              /\ stream.got[i].reply = stream.got[1].reply
        /\ stream.got[Len(stream.got)].last
        /\ \A i \in 1..(Len(stream.got) - 1) : ~stream.got[i].last

\* C39: the reply a call of readResponse() returns for a command was
\* written by the server for that command.
ReplyMatchesCommand ==
    stream.got # <<>> =>
        \A i \in 1..Len(stream.got) : stream.got[i].cmd = stream.usedFor

\* C34: when the probe reported the canonical object absent the content to
\* stage is the header and the record with createHeader, the record alone
\* without it; in a canonical object the header is never on a line after
\* the first.
HeaderOnlyAtCreation ==
    /\ (pc = "stage" /\ ~originalExists) =>
          fullContent = IF createHeader THEN <<header>> \o csvData
                                        ELSE csvData
    /\ Present(filename) =>
          \A i \in 2..Len(files[filename]) : files[filename][i] # header
HeaderlessCreated ==
    /\ returned /\ result /\ prior = Absent /\ ~createHeader
    /\ files[filename] = csvData /\ attempt = 1

\* C35: in a wake cycle uploadData is called at most once and only after
\* the sensor initialisation and the WiFi connection succeeded, a failed
\* time synchronisation does not stop the upload, and every wake cycle
\* reaches goToSleep().
UploadOncePerCycle ==
    /\ [](/\ cycle.uploads <= 1
          /\ (cycle.uploads = 1 \/ cycle.at \in {"ntp", "upload"}) =>
                (cycle.sensorOk /\ cycle.wifiOk)
          /\ (cycle.at = "powerdown") => cycle.uploads = 1)
    /\ (cycle.at # "sleep") ~> (cycle.at = "sleep")
SleptAfterFailedSync ==
    /\ cycle.at = "sleep" /\ cycle.uploads = 1 /\ ~cycle.ntpOk
    /\ cycle.ntpAttempts = 3 /\ ~cycle.uploadSuccess /\ cycle.wakes = 1

\* C36: a step changes what is stored under a name other than the
\* temporary one only by removing the object or by renaming another
\* object to that name; the canonical name in particular is never the
\* target of a STOR or APPE.
OtherNames == Names \ {tempFilename}
RemovedOrRenamed(n) ==
    \/ files'[n] = files[n]
    \/ files'[n] = Absent
    \/ \E m \in Names \ {n} :
          /\ files[m] # Absent /\ files'[m] = Absent
          /\ files'[n] = files[m]
PayloadOnlyToTemp ==
    [][\A n \in OtherNames : RemovedOrRenamed(n)]_vars
CommittedByRename ==
    /\ pc = "finalProbe" /\ originalExists /\ att.removed /\ att.renamed
    /\ files[filename] = prior \o csvData /\ files[tempFilename] = Absent
    /\ hadContent

\* C37: the steps of an attempt up to and including the read-back of the
\* staged object change neither the canonical object nor any backup
\* object.
EarlySteps ==
    {"connect", "login", "cwd", "probe", "download", "stage", "verify"}
Untouched(n) == files'[n] = files[n]
EarlyAbortsTouchNothing ==
    [][(pc \in EarlySteps) => (\A n \in OtherNames : Untouched(n))]_vars
ReadBackAbortKeptAll ==
    /\ concluded /\ lastAbort = "verify" /\ att.mismatch /\ att.deleTemp
    /\ originalExists /\ hadContent /\ files[filename] = prior
    /\ files[BackupName(0)] = OldBackup

\* C38: the canonical content from before the invocation is always the
\* content, or the beginning of the content, of the canonical object, of
\* a backup object or of the temporary object.
PriorKept ==
    hadContent =>
        \E n \in Names :
            /\ files[n] # Absent
            /\ Len(files[n]) >= Len(prior)
            /\ Prefix(files[n], Len(prior)) = prior

\* replies that say a file is there, and replies that reject the command
\* itself
Found(cmd, r) == startsWith(r, IF cmd = "MLST" THEN "250" ELSE "213")
Unsupported(r) == r \in {"500", "550 not allowed"}
ProbeOrder == <<"MLST", "SIZE", "MDTM">>
ReplyTo(cmd) == CASE cmd = "MLST" -> probe.mlst
                  [] cmd = "SIZE" -> probe.size
                  [] cmd = "MDTM" -> probe.mdtm

\* C17: fileExists sends MLST, SIZE, MDTM in that order, stops with true
\* at the first reply that says the file is there, goes on to MDTM
\* whenever SIZE is rejected as unsupported, and returns false only after
\* all three probes were sent.
ProbesInOrder ==
    probed.done =>
        /\ probed.sent = Prefix(ProbeOrder, Len(probed.sent))
        /\ probed.value <=>
              Found(probed.sent[Len(probed.sent)],
                    ReplyTo(probed.sent[Len(probed.sent)]))
        /\ Unsupported(probe.size) /\ ~Found("MLST", probe.mlst) =>
              Len(probed.sent) = 3
        /\ ~probed.value => Len(probed.sent) = 3

MalformedRejected ==
    (parsed.done /\ (~tuple.open \/ ~tuple.close \/ tuple.n # 6)) =>
        ~parsed.ok

\* C20: parsePassiveMode succeeds only with a port in 1..65535.
PortInRange == (parsed.done /\ parsed.ok) => dataPort \in 1..65535

Spec == Init /\ [][Next]_vars

\* parsePassiveMode and fileExists run on their own
PasvSpec == PasvInit /\ [][PasvNext]_vars
ProbeSpec == ProbeInit /\ [][ProbeNext]_vars

\* the operations of the client called on their own
ClientSpec == ClientInit /\ [][ClientNext]_vars

\* the wake cycles of the device; setup() runs on to the deep sleep
CycleSpec == CycleInit /\ [][CycleNext]_vars
\* setup() is straight-line code with bounded loops and bounded waits
FairCycleSpec == CycleSpec /\ WF_vars(CycleStep)

\* commands and replies on the control connection
StreamSpec == StreamInit /\ [][StreamNext]_vars

\* the strings of one outer attempt
ComposeSpec == ComposeInit /\ [][ComposeNext]_vars

\* two uploadData invocations on one canonical name
TwoWriterSpec == TwoInit /\ [][TwoNext]_vars

\* uploadData keeps running: no step waits for ever
FairSpec == Spec /\ WF_vars(Step)
====
